---- MODULE Spec2Model ----
(***************************************************************************)
(* A model of the MovieDetails view (src/components/MovieDetails.tsx):     *)
(* the action resolver (handleWatch, handleDownload), the episode          *)
(* organizer (isSeries, episodesBySeason, seasonNumbers,                   *)
(* currentSeasonEpisodes) and the view state (activeTab, selectedSeason,   *)
(* viewerOpen, viewerIndex, and the screenshot viewer's current).          *)
(*                                                                         *)
(* A JavaScript value that may be undefined is carried as a sequence: <<>> *)
(* is undefined and <<v>> is the value v.  An object is the sequence of    *)
(* its properties, each a pair <<name, value>>, in the order Object.keys   *)
(* lists them.  A URL is the tuple of the parts the template literal       *)
(* concatenates.  A hand-off is the pair <<function, url>>.                *)
(***************************************************************************)
EXTENDS Integers, Sequences, FiniteSets, TLC

(* ------------------------------ bounds -------------------------------- *)

\* longest episode list given to the organizer on its own
MaxEpisodes == 3
\* longest episode list of a title shown in the view
MaxViewEpisodes == 2
\* largest season number of an episode
MaxSeason == 2
\* largest episode number
MaxNumber == 2
\* most screenshots of a title
MaxScreenshots == 2

(* ------------------------- JavaScript values -------------------------- *)

Undefined == <<>>

Val(v) == <<v>>

\* obj.f : the property's value, undefined when the object has no such property
Prop(obj, f) ==
    IF \E i \in 1..Len(obj) : obj[i][1] = f
    THEN Val(obj[CHOOSE i \in 1..Len(obj) : obj[i][1] = f][2])
    ELSE Undefined

\* obj.f, for a property every such object has
Get(obj, f) == Prop(obj, f)[1]

\* ToBoolean of a string-or-undefined: undefined and "" are falsy
TruthyStr(v) == v # Undefined /\ v[1] # ""

\* ToBoolean of a number-or-undefined: undefined and 0 are falsy
TruthyNum(v) == v # Undefined /\ v[1] # 0

\* `${v}` : a template literal's conversion of a string-or-undefined
TemplateStr(v) == IF v = Undefined THEN "undefined" ELSE v[1]

\* the props botUsername and channelLink
botUsername == "bot"

channelLink == "https://t.me/channel"

(* --------------------------- action resolver -------------------------- *)

\* `https://t.me/${botUsername}?start=${code}`
DeepLink(code) == <<"https://t.me/", botUsername, "?start=", TemplateStr(code)>>

\* (window as any).Telegram?.WebApp, for window.Telegram = tg
WebApp(tg) == IF tg = Undefined THEN Undefined ELSE Prop(tg[1], "WebApp")

HasWebApp(tg) == WebApp(tg) # Undefined

OpenTelegramLink(url) == <<"openTelegramLink", url>>

WindowOpen(url) == <<"window.open", url>>

\* a mutant of handleWatch: the deep link always goes to window.open
handleWatch_alwaysWindow(code, tg) ==
    LET url == DeepLink(code)
    IN  <<WindowOpen(url)>>

\* handleWatch(code): the hand-offs it makes, window.Telegram being tg
handleWatch(code, tg) ==
    LET url == DeepLink(code)
    IN  IF HasWebApp(tg)
        THEN <<OpenTelegramLink(url)>>
        ELSE <<WindowOpen(url)>>

\* a mutant of handleDownload: the download code is tried before the link
handleDownload_codeFirst(downloadCode, downloadLink, fallbackCode, tg) ==
    IF TruthyStr(downloadCode) THEN
        IF HasWebApp(tg)
        THEN <<OpenTelegramLink(DeepLink(downloadCode))>>
        ELSE <<WindowOpen(DeepLink(downloadCode))>>
    ELSE IF TruthyStr(downloadLink) THEN <<WindowOpen(<<downloadLink[1]>>)>>
    ELSE IF TruthyStr(fallbackCode) THEN handleWatch(fallbackCode, tg)
    ELSE <<>>

\* a mutant of handleDownload: a direct link goes to the messaging client
handleDownload_linkToClient(downloadCode, downloadLink, fallbackCode, tg) ==
    IF TruthyStr(downloadLink) THEN
        IF HasWebApp(tg)
        THEN <<OpenTelegramLink(<<downloadLink[1]>>)>>
        ELSE <<WindowOpen(<<downloadLink[1]>>)>>
    ELSE IF TruthyStr(downloadCode) THEN
        IF HasWebApp(tg)
        THEN <<OpenTelegramLink(DeepLink(downloadCode))>>
        ELSE <<WindowOpen(DeepLink(downloadCode))>>
    ELSE IF TruthyStr(fallbackCode) THEN handleWatch(fallbackCode, tg)
    ELSE <<>>

\* handleDownload(downloadCode?, downloadLink?, fallbackCode?)
handleDownload(downloadCode, downloadLink, fallbackCode, tg) ==
    IF TruthyStr(downloadLink) THEN
        <<WindowOpen(<<downloadLink[1]>>)>>
    ELSE IF TruthyStr(downloadCode) THEN
        LET url == DeepLink(downloadCode)
        IN  IF HasWebApp(tg)
            THEN <<OpenTelegramLink(url)>>
            ELSE <<WindowOpen(url)>>
    ELSE IF TruthyStr(fallbackCode) THEN
        handleWatch(fallbackCode, tg)
    ELSE <<>>

(* --------------------------- episode organizer ------------------------ *)

\* a property key: an object's keys are strings
KeyOf(n) == ToString(n)

\* Number(key), for the keys the organizer makes
NumberOf(k) == CHOOSE n \in 0..(MaxSeason + 2) : ToString(n) = k

\* movie.episodes && movie.episodes.length > 0, as the value JavaScript gives
HasEpisodes(m) ==
    LET eps == Prop(m, "episodes")
    IN  IF eps = Undefined THEN Undefined ELSE Val(Len(eps[1]) > 0)

\* a mutant of isSeries: only "Series" is a multi-episode category
isSeries_oneCategory(m) ==
    \/ Get(m, "category") = "Series"
    \/ (HasEpisodes(m) # Undefined /\ HasEpisodes(m)[1])

\* const isSeries = category === 'Series' || category === 'Korean Drama' || (...),
\* read as a condition
isSeries(m) ==
    \/ Get(m, "category") = "Series"
    \/ Get(m, "category") = "Korean Drama"
    \/ (HasEpisodes(m) # Undefined /\ HasEpisodes(m)[1])

\* a mutant of SeasonOf: only a missing season defaults to 1
SeasonOf_missingOnly(ep) ==
    IF Prop(ep, "season") # Undefined THEN Prop(ep, "season")[1] ELSE 1

\* const s = ep.season || 1
SeasonOf(ep) ==
    IF TruthyNum(Prop(ep, "season")) THEN Prop(ep, "season")[1] ELSE 1

\* groups[s] = list: an integer key takes its place in ascending order
SetKey(groups, k, list) ==
    IF \E i \in 1..Len(groups) : groups[i][1] = k
    THEN [i \in 1..Len(groups) |->
            IF groups[i][1] = k THEN <<k, list>> ELSE groups[i]]
    ELSE LET before == Cardinality({i \in 1..Len(groups) :
                                        NumberOf(groups[i][1]) < NumberOf(k)})
         IN  SubSeq(groups, 1, before) \o <<<<k, list>>>>
                \o SubSeq(groups, before + 1, Len(groups))

\* if (!groups[s]) groups[s] = []; groups[s].push(ep)
Push(groups, ep) ==
    LET k    == KeyOf(SeasonOf(ep))
        held == Prop(groups, k)
    IN  SetKey(groups, k, Append(IF held = Undefined THEN <<>> ELSE held[1], ep))

\* movie.episodes.forEach(ep => ...), from the empty object
GroupAll(eps) ==
    LET F[i \in 0..Len(eps)] ==
            IF i = 0 THEN <<>> ELSE Push(F[i - 1], eps[i])
    IN  F[Len(eps)]

\* the comparator (a, b) => a.number - b.number
CompareNumber(a, b) == Get(a, "number") - Get(b, "number")

\* a mutant of InsertEpisode: an episode goes before those of equal number
InsertEpisode_beforeEqual(sorted, e) ==
    LET n == Len(sorted)
        j == CHOOSE i \in 0..n :
                /\ \A x \in 1..i : CompareNumber(sorted[x], e) < 0
                /\ \A x \in (i + 1)..n : CompareNumber(sorted[x], e) >= 0
    IN  SubSeq(sorted, 1, j) \o <<e>> \o SubSeq(sorted, j + 1, n)

\* one step of the stable sort: e goes after every element not greater than it
InsertEpisode(sorted, e) ==
    LET n == Len(sorted)
        j == CHOOSE i \in 0..n :
                /\ \A x \in 1..i : CompareNumber(sorted[x], e) <= 0
                /\ \A x \in (i + 1)..n : CompareNumber(sorted[x], e) > 0
    IN  SubSeq(sorted, 1, j) \o <<e>> \o SubSeq(sorted, j + 1, n)

\* groups[+key].sort((a, b) => a.number - b.number): Array.prototype.sort is stable
SortEpisodes(seq) ==
    LET F[i \in 0..Len(seq)] ==
            IF i = 0 THEN <<>> ELSE InsertEpisode(F[i - 1], seq[i])
    IN  F[Len(seq)]

\* the body of the useMemo: the groups of movie.episodes, each sorted
Organize(episodes) ==
    IF episodes = Undefined THEN <<>>
    ELSE LET groups == GroupAll(episodes[1])
         IN  [i \in 1..Len(groups) |->
                <<groups[i][1], SortEpisodes(groups[i][2])>>]

\* Object.keys(obj)
ObjectKeys(obj) == [i \in 1..Len(obj) |-> obj[i][1]]

\* one step of .sort((a, b) => a - b)
InsertNumber(sorted, e) ==
    LET n == Len(sorted)
        j == CHOOSE i \in 0..n :
                /\ \A x \in 1..i : sorted[x] - e <= 0
                /\ \A x \in (i + 1)..n : sorted[x] - e > 0
    IN  SubSeq(sorted, 1, j) \o <<e>> \o SubSeq(sorted, j + 1, n)

SortNumbers(seq) ==
    LET F[i \in 0..Len(seq)] ==
            IF i = 0 THEN <<>> ELSE InsertNumber(F[i - 1], seq[i])
    IN  F[Len(seq)]

\* a mutant of SeasonNumbersOf: the comparator is turned around, (a, b) => b - a
SeasonNumbersOf_descending(groups) ==
    LET keys == ObjectKeys(groups)
    IN  [i \in 1..Len(keys) |-> NumberOf(keys[Len(keys) + 1 - i])]

\* Object.keys(episodesBySeason).map(Number).sort((a, b) => a - b)
SeasonNumbersOf(groups) ==
    LET keys == ObjectKeys(groups)
    IN  SortNumbers([i \in 1..Len(keys) |-> NumberOf(keys[i])])

\* episodesBySeason[selectedSeason] || []
CurrentSeasonEpisodesOf(groups, season) ==
    LET held == Prop(groups, KeyOf(season))
    IN  IF held = Undefined THEN <<>> ELSE held[1]

(* -------------------------------- state ------------------------------- *)

VARIABLES
    movie,              \* the prop movie
    activeTab,          \* useState('episodes')
    selectedSeason,     \* useState(1)
    viewerOpen,         \* useState(false)
    viewerIndex,        \* useState(0)
    current,            \* ScreenshotViewer's useState(initialIndex), 0 while unmounted
    episodesBySeason,   \* the value the useMemo holds
    event,              \* the handler call the last event made, if any
    opened              \* the hand-offs the last event made, in order

vars == <<movie, activeTab, selectedSeason, viewerOpen, viewerIndex,
          current, episodesBySeason, event, opened>>

(* ----------------------------- the inputs ----------------------------- *)

\* an optional property: left out when v is undefined
Opt(f, v) == IF v = Undefined THEN <<>> ELSE <<<<f, v[1]>>>>

\* an Episode: id and number are set, the other properties are optional
Episode(id, season, number, soon, code, dcode, dlink) ==
    <<<<"id", id>>, <<"number", number>>>>
        \o Opt("season", season) \o Opt("isComingSoon", soon)
        \o Opt("telegramCode", code) \o Opt("downloadCode", dcode)
        \o Opt("downloadLink", dlink)

\* a Movie: id and category are set, the other properties are optional
Title(category, code, dcode, dlink, episodes, screenshots) ==
    <<<<"id", "m">>, <<"category", category>>>>
        \o Opt("telegramCode", code) \o Opt("downloadCode", dcode)
        \o Opt("downloadLink", dlink) \o Opt("episodes", episodes)
        \o Opt("screenshots", screenshots)

\* the movie m with another episode list
WithEpisodes(m, list) ==
    Title(Get(m, "category"), Prop(m, "telegramCode"), Prop(m, "downloadCode"),
          Prop(m, "downloadLink"), Val(list), Prop(m, "screenshots"))

Categories == {"Movie", "Series", "Korean Drama"}

\* window.Telegram: undefined, an object without WebApp, an object with it
TelegramValues == {Undefined, Val(<<>>), Val(<<<<"WebApp", "app">>>>)}

Seasons == {Undefined} \cup {Val(n) : n \in 0..MaxSeason}

PlayCodes == {Undefined, Val("w")}

DownloadCodes == {Undefined, Val("d")}

DownloadLinks == {Undefined, Val("https://x/file.mp4")}

Flags == {Undefined, Val(FALSE), Val(TRUE)}

\* every argument a handler can be given
ArgValues ==
    {Undefined, Val(""), Val("w"), Val("d"), Val("a b&c=d"), Val("https://x/file.mp4")}

\* the episodes that differ in season and number only
PlainEpisodes(id) ==
    {Episode(id, s, n, Undefined, Val("w"), Val("d"), Undefined) :
        s \in Seasons, n \in 1..MaxNumber}

\* the episodes that differ in season only; their numbers fall as their
\* place in the list rises, so that the sort reorders every group of two
ViewEpisodes(id) ==
    {Episode(id, s, MaxViewEpisodes + 1 - id, Undefined, Val("w"), Val("d"), Undefined) :
        s \in Seasons}

\* the episodes that differ in lock and action references: the first, in the
\* default season, in all of them; the later ones, in the last season and with
\* every reference, in the lock only
ControlEpisodes(id) ==
    IF id = 1
    THEN {Episode(id, Undefined, 1, f, c, d, l) :
            f \in Flags, c \in PlayCodes, d \in DownloadCodes, l \in DownloadLinks}
    ELSE {Episode(id, Val(MaxSeason), 1, f, Val("w"), Val("d"), Val("https://x/file.mp4")) :
            f \in {Val(FALSE), Val(TRUE)}}

\* the pools of episodes for the places of an episode list
OrganizerPool == [i \in 1..MaxEpisodes |-> PlainEpisodes(i)]

ViewPool == [i \in 1..MaxViewEpisodes |-> ViewEpisodes(i)]

ViewControlPool == [i \in 1..MaxViewEpisodes |-> ControlEpisodes(i)]

\* the episode lists of at most max episodes, the i-th drawn from pool[i]
EpisodeLists(pool, max) ==
    UNION {{eps \in [1..n -> UNION {pool[i] : i \in 1..n}] :
                \A i \in 1..n : eps[i] \in pool[i]} : n \in 0..max}

Screenshots(n) == [i \in 1..n |-> <<"shot", i>>]

ScreenshotLists == {Undefined} \cup {Val(Screenshots(n)) : n \in 0..MaxScreenshots}

OrganizerMovies ==
    {Title(c, Val("w"), Undefined, Undefined, e, Undefined) :
        c \in Categories,
        e \in {Undefined} \cup {Val(l) : l \in EpisodeLists(OrganizerPool, MaxEpisodes)}}

NavigationMovies ==
    {Title(c, Val("w"), Val("d"), Undefined, e, Val(Screenshots(MaxScreenshots))) :
        c \in Categories,
        e \in {Undefined} \cup {Val(l) : l \in EpisodeLists(ViewPool, MaxViewEpisodes)}}

ControlMovies ==
    {Title("Movie", c, d, l, Undefined, Val(Screenshots(MaxScreenshots))) :
        c \in PlayCodes, d \in DownloadCodes \cup {Val("")}, l \in DownloadLinks}
    \cup
    {Title("Series", Val("w"), Val("d"), Undefined, Val(e), Val(Screenshots(MaxScreenshots))) :
        e \in EpisodeLists(ViewControlPool, MaxViewEpisodes)}

(* ------------------------- what a render derives ---------------------- *)

IsSeries == isSeries(movie)

seasonNumbers == SeasonNumbersOf(episodesBySeason)

currentSeasonEpisodes == CurrentSeasonEpisodesOf(episodesBySeason, selectedSeason)

\* movie.screenshots && movie.screenshots.length > 0
HasScreenshots ==
    Prop(movie, "screenshots") # Undefined /\ Len(Prop(movie, "screenshots")[1]) > 0

\* viewerOpen && movie.screenshots: the ScreenshotViewer is mounted
ViewerMounted == viewerOpen /\ Prop(movie, "screenshots") # Undefined

NoEvent == <<"none", <<>>, "none", <<>>, <<>>>>

\* a mutant of Memo: the memo never recomputes
Memo_stale(held, oldDeps, newDeps) == held

\* useMemo(() => ..., [movie.episodes]): recomputed when movie.episodes changes
Memo(held, oldDeps, newDeps) ==
    IF newDeps = oldDeps THEN held ELSE Organize(newDeps)

(* ------------------------------- Init --------------------------------- *)

InitWith(movies) ==
    /\ movie \in movies
    /\ activeTab = "episodes"
    /\ selectedSeason = 1
    /\ viewerOpen = FALSE
    /\ viewerIndex = 0
    /\ current = 0
    /\ episodesBySeason = Organize(Prop(movie, "episodes"))
    /\ event = NoEvent
    /\ opened = <<>>

Init == InitWith(NavigationMovies)

InitControls == InitWith(ControlMovies)

InitOrganizer == InitWith(OrganizerMovies)

\* the titles of the view that have episodes
InitSelections ==
    InitWith({m \in NavigationMovies :
                Prop(m, "episodes") # Undefined /\ Len(Prop(m, "episodes")[1]) > 0})

InitResolver ==
    InitWith({Title("Movie", Val("w"), Val("d"), Undefined, Undefined, Undefined)})

(* ------------------------------ actions ------------------------------- *)

\* what an event leaves alone when it only calls a handler
viewState == <<movie, activeTab, selectedSeason, viewerOpen, viewerIndex,
               current, episodesBySeason>>

\* a handler call: the control, its item, the handler, its arguments, and
\* window.Telegram as the call found it
Called(ctl, item, h, args, tg) == <<ctl, item, h, args, tg>>

\* a render that no user event caused
Quiet == event' = NoEvent /\ opened' = <<>>

\* a mutant of isLocked: an episode with no play code is locked as well
isLocked_noPlayCode(ep) ==
    Prop(ep, "isComingSoon") = Val(TRUE) \/ ~TruthyStr(Prop(ep, "telegramCode"))

\* const isLocked = ep.isComingSoon, read as a condition
isLocked(ep) == Prop(ep, "isComingSoon") = Val(TRUE)

\* {!isLocked && (... <button> WATCH ...)}
EpisodeWatchOffered(ep) == ~isLocked(ep)

\* {!isLocked && (... {ep.downloadCode && (<button> ...)})}
EpisodeDownloadOffered(ep) == ~isLocked(ep) /\ TruthyStr(Prop(ep, "downloadCode"))

\* the view's own controls can be clicked: the open ScreenshotViewer is a
\* full-screen layer over them, and a click on it is its onClose
ViewClickable == ~ViewerMounted

\* the episode list is rendered: activeTab === 'episodes' && isSeries
EpisodesShown == activeTab = "episodes" /\ IsSeries

\* an episode's control: onClick={() => handleWatch(ep.telegramCode)}
WatchEpisode ==
    /\ ViewClickable
    /\ EpisodesShown
    /\ \E i \in 1..Len(currentSeasonEpisodes), tg \in TelegramValues :
        LET ep == currentSeasonEpisodes[i]
        IN  /\ EpisodeWatchOffered(ep)
            /\ event' = Called("episode.watch", <<ep>>, "handleWatch",
                               <<Prop(ep, "telegramCode")>>, tg)
            /\ opened' = handleWatch(Prop(ep, "telegramCode"), tg)
            /\ UNCHANGED viewState

\* an episode's control: {ep.downloadCode && ... handleDownload(ep.downloadCode)}
DownloadEpisode ==
    /\ ViewClickable
    /\ EpisodesShown
    /\ \E i \in 1..Len(currentSeasonEpisodes), tg \in TelegramValues :
        LET ep == currentSeasonEpisodes[i]
        IN  /\ EpisodeDownloadOffered(ep)
            /\ event' = Called("episode.download", <<ep>>, "handleDownload",
                               <<Prop(ep, "downloadCode"), Undefined, Undefined>>, tg)
            /\ opened' = handleDownload(Prop(ep, "downloadCode"), Undefined,
                                        Undefined, tg)
            /\ UNCHANGED viewState

\* {!isSeries && (... <button> WATCH NOW ...)}
TitleWatchOffered == ~IsSeries

\* a mutant of TitleDownloadOffered: a direct link is enough for the control
TitleDownloadOffered_byLink ==
    /\ ~IsSeries
    /\ TruthyStr(Prop(movie, "downloadCode")) \/ TruthyStr(Prop(movie, "downloadLink"))

\* {!isSeries && (... {movie.downloadCode && (<button> ...)})}
TitleDownloadOffered == ~IsSeries /\ TruthyStr(Prop(movie, "downloadCode"))

\* the title's control: onClick={() => handleWatch(movie.telegramCode)}
WatchTitle ==
    /\ ViewClickable
    /\ TitleWatchOffered
    /\ \E tg \in TelegramValues :
        /\ event' = Called("title.watch", <<movie>>, "handleWatch",
                           <<Prop(movie, "telegramCode")>>, tg)
        /\ opened' = handleWatch(Prop(movie, "telegramCode"), tg)
        /\ UNCHANGED viewState

\* the title's control: {movie.downloadCode && ... handleDownload(movie.downloadCode)}
DownloadTitle ==
    /\ ViewClickable
    /\ TitleDownloadOffered
    /\ \E tg \in TelegramValues :
        /\ event' = Called("title.download", <<movie>>, "handleDownload",
                           <<Prop(movie, "downloadCode"), Undefined, Undefined>>, tg)
        /\ opened' = handleDownload(Prop(movie, "downloadCode"), Undefined,
                                    Undefined, tg)
        /\ UNCHANGED viewState

\* Join Telegram Channel, in the About tab and under a single title's controls
JoinChannel ==
    /\ ViewClickable
    /\ activeTab = "info" \/ ~IsSeries
    /\ event' = Called("join", <<>>, "window.open", <<Val(channelLink)>>, Undefined)
    /\ opened' = <<WindowOpen(<<channelLink>>)>>
    /\ UNCHANGED viewState

\* a mutant of SelectTab: selecting a tab goes back to the first season
SelectTab_resetsSeason ==
    /\ ViewClickable
    /\ IsSeries
    /\ \E t \in {"episodes", "info"} :
        /\ activeTab' = t
        /\ event' = Called("tab", <<>>, "setActiveTab", <<Val(t)>>, Undefined)
    /\ opened' = <<>>
    /\ selectedSeason' = 1
    /\ UNCHANGED <<movie, viewerOpen, viewerIndex, current, episodesBySeason>>

\* the tab buttons, rendered when isSeries: setActiveTab('episodes' | 'info')
SelectTab ==
    /\ ViewClickable
    /\ IsSeries
    /\ \E t \in {"episodes", "info"} :
        /\ activeTab' = t
        /\ event' = Called("tab", <<>>, "setActiveTab", <<Val(t)>>, Undefined)
    /\ opened' = <<>>
    /\ UNCHANGED <<movie, selectedSeason, viewerOpen, viewerIndex, current,
                   episodesBySeason>>

\* the season buttons, rendered in the episodes tab when seasonNumbers.length > 1
SelectSeason ==
    /\ ViewClickable
    /\ EpisodesShown
    /\ Len(seasonNumbers) > 1
    /\ \E i \in 1..Len(seasonNumbers) :
        /\ selectedSeason' = seasonNumbers[i]
        /\ event' = Called("season", <<>>, "setSelectedSeason",
                           <<Val(seasonNumbers[i])>>, Undefined)
    /\ opened' = <<>>
    /\ UNCHANGED <<movie, activeTab, viewerOpen, viewerIndex, current,
                   episodesBySeason>>

\* a mutant of ClickScreenshot: the viewer always mounts at the first screenshot
ClickScreenshot_atFirst ==
    /\ ViewClickable
    /\ activeTab = "info"
    /\ HasScreenshots
    /\ \E idx \in 0..(Len(Prop(movie, "screenshots")[1]) - 1) :
        /\ viewerIndex' = idx
        /\ viewerOpen' = TRUE
        /\ current' = 0
        /\ event' = Called("screenshot", <<>>, "setViewerIndex", <<Val(idx)>>, Undefined)
    /\ opened' = <<>>
    /\ UNCHANGED <<movie, activeTab, selectedSeason, episodesBySeason>>

\* a screenshot of the gallery in the About tab:
\* setViewerIndex(idx); setViewerOpen(true), and the viewer mounts at idx
ClickScreenshot ==
    /\ ViewClickable
    /\ activeTab = "info"
    /\ HasScreenshots
    /\ \E idx \in 0..(Len(Prop(movie, "screenshots")[1]) - 1) :
        /\ viewerIndex' = idx
        /\ viewerOpen' = TRUE
        /\ current' = idx
        /\ event' = Called("screenshot", <<>>, "setViewerIndex", <<Val(idx)>>, Undefined)
    /\ opened' = <<>>
    /\ UNCHANGED <<movie, activeTab, selectedSeason, episodesBySeason>>

\* a dot of the ScreenshotViewer: setCurrent(idx)
SetCurrent ==
    /\ ViewerMounted
    /\ \E idx \in 0..(Len(Prop(movie, "screenshots")[1]) - 1) :
        /\ current' = idx
        /\ event' = Called("viewer.dot", <<>>, "setCurrent", <<Val(idx)>>, Undefined)
    /\ opened' = <<>>
    /\ UNCHANGED <<movie, activeTab, selectedSeason, viewerOpen, viewerIndex,
                   episodesBySeason>>

\* the ScreenshotViewer's onClose: setViewerOpen(false), and the viewer unmounts
CloseViewer ==
    /\ ViewerMounted
    /\ viewerOpen' = FALSE
    /\ current' = 0
    /\ event' = Called("viewer.close", <<>>, "setViewerOpen", <<Val(FALSE)>>, Undefined)
    /\ opened' = <<>>
    /\ UNCHANGED <<movie, activeTab, selectedSeason, viewerIndex, episodesBySeason>>

\* the episode lists the parent can hand over next: one more episode, or one fewer
NextEpisodeLists(pool, max) ==
    LET eps  == Prop(movie, "episodes")
        list == IF eps = Undefined THEN <<>> ELSE eps[1]
        n    == Len(list)
    IN  (IF n < max THEN {Append(list, e) : e \in pool[n + 1]} ELSE {})
        \cup (IF n > 0 THEN {SubSeq(list, 1, n - 1)} ELSE {})

\* the parent renders the view with a movie whose episode list changed
PropsChange(pool, max) ==
    \E list \in NextEpisodeLists(pool, max) :
        /\ movie' = WithEpisodes(movie, list)
        /\ episodesBySeason' =
                Memo(episodesBySeason, Prop(movie, "episodes"), Val(list))
        /\ Quiet
        /\ UNCHANGED <<activeTab, selectedSeason, viewerOpen, viewerIndex, current>>

\* handleWatch called with any argument
CallHandleWatch ==
    \E code \in ArgValues, tg \in TelegramValues :
        /\ event' = Called("call", <<>>, "handleWatch", <<code>>, tg)
        /\ opened' = handleWatch(code, tg)
        /\ UNCHANGED viewState

\* handleDownload called with any arguments
CallHandleDownload ==
    \E dc \in ArgValues, dl \in ArgValues, fc \in ArgValues, tg \in TelegramValues :
        /\ event' = Called("call", <<>>, "handleDownload", <<dc, dl, fc>>, tg)
        /\ opened' = handleDownload(dc, dl, fc, tg)
        /\ UNCHANGED viewState

(* --------------------------- specifications --------------------------- *)

UserEvent ==
    \/ WatchEpisode
    \/ DownloadEpisode
    \/ WatchTitle
    \/ DownloadTitle
    \/ JoinChannel
    \/ SelectTab
    \/ SelectSeason
    \/ ClickScreenshot
    \/ SetCurrent
    \/ CloseViewer

Next ==
    \/ UserEvent
    \/ PropsChange(ViewPool, MaxViewEpisodes)

NextControls ==
    \/ UserEvent
    \/ PropsChange(ViewControlPool, MaxViewEpisodes)

NextOrganizer == PropsChange(OrganizerPool, MaxEpisodes)

NextResolver ==
    \/ CallHandleWatch
    \/ CallHandleDownload

\* the view, over titles that differ in category, episodes and screenshots
Spec == Init /\ [][Next]_vars

\* the view, over titles that differ in lock flags and action references
SpecControls == InitControls /\ [][NextControls]_vars

\* the organizer alone, over longer episode lists
SpecOrganizer == InitOrganizer /\ [][NextOrganizer]_vars

\* the resolver alone, over every combination of arguments
SpecResolver == InitResolver /\ [][NextResolver]_vars

\* the selections the view offers, tab and season, of a title that stays as
\* it is
NextSelections ==
    \/ SelectTab
    \/ SelectSeason

\* a user who keeps trying: every selection that is offered again and again
\* is made in the end
SelectionsTried ==
    /\ \A t \in {"episodes", "info"} : SF_vars(SelectTab /\ activeTab' = t)
    /\ \A s \in 1..MaxSeason : SF_vars(SelectSeason /\ selectedSeason' = s)

\* the view of a title with episodes, under a user who tries every selection
SpecSelections == InitSelections /\ [][NextSelections]_vars /\ SelectionsTried

(* ------------------------ what the claims speak of -------------------- *)

\* the last event: the control, the item it belongs to, the handler it called,
\* the arguments, and window.Telegram as the call found it
EventControl == event[1]

EventItem == event[2]

EventHandler == event[3]

EventArgs == event[4]

EventTelegram == event[5]

\* a hand-off: the function that was given the URL, and the URL
FnOf(handOff) == handOff[1]

UrlOf(handOff) == handOff[2]

\* the keys of the groups the memo holds, and the group of a key
GroupKeys == {episodesBySeason[i][1] : i \in 1..Len(episodesBySeason)}

Group(k) ==
    episodesBySeason[CHOOSE i \in 1..Len(episodesBySeason) :
                        episodesBySeason[i][1] = k][2]

\* an optional reference field is present: set, and not the empty string
Present(v) == v # Undefined /\ v[1] # ""

\* the messaging client is available to a call that found window.Telegram = tg
ClientAvailable(tg) == tg # Undefined /\ Prop(tg[1], "WebApp") # Undefined

\* the deep link of a code, spelled out
DeepLinkTo(c) == <<"https://t.me/", "bot", "?start=", c>>

\* the episode list of the title, empty when the title has none
EpisodeList ==
    IF Prop(movie, "episodes") = Undefined THEN <<>> ELSE Prop(movie, "episodes")[1]

\* the grouping key of an episode: its season, or 1 when that is missing or 0
GroupingKey(e) ==
    IF Prop(e, "season") # Undefined /\ Prop(e, "season")[1] # 0
    THEN Prop(e, "season")[1]
    ELSE 1

GroupingKeys == {GroupingKey(EpisodeList[i]) : i \in 1..Len(EpisodeList)}

\* how often e occurs in seq
Occurrences(e, seq) == Cardinality({i \in 1..Len(seq) : seq[i] = e})

\* the first position of e in the episode list
InputPosition(e) ==
    CHOOSE i \in 1..Len(EpisodeList) :
        /\ EpisodeList[i] = e
        /\ \A j \in 1..(i - 1) : EpisodeList[j] # e

(* -------------------------------- C1 ---------------------------------- *)

\* C1: handleDownload takes the first present tier, whatever the combination
\* of downloadLink, downloadCode and fallbackCode: a present link is opened
\* verbatim and no code is used; else a present download code gives the deep
\* link of that code; else a present fallback code gives the deep link of that
\* code; else nothing is opened.
C1_DownloadTierOrder ==
    EventHandler = "handleDownload" =>
        LET dc == EventArgs[1]
            dl == EventArgs[2]
            fc == EventArgs[3]
        IN  /\ Present(dl) =>
                opened = <<<<"window.open", <<dl[1]>>>>>>
            /\ ~Present(dl) /\ Present(dc) =>
                Len(opened) = 1 /\ UrlOf(opened[1]) = DeepLinkTo(dc[1])
            /\ ~Present(dl) /\ ~Present(dc) /\ Present(fc) =>
                Len(opened) = 1 /\ UrlOf(opened[1]) = DeepLinkTo(fc[1])
            /\ ~Present(dl) /\ ~Present(dc) /\ ~Present(fc) =>
                opened = <<>>

\* all three fields present and different, and the link was the one opened
C1_Witness ==
    /\ EventHandler = "handleDownload"
    /\ EventArgs = <<Val("d"), Val("https://x/file.mp4"), Val("w")>>
    /\ opened = <<<<"window.open", <<"https://x/file.mp4">>>>>>

(* -------------------------------- C2 ---------------------------------- *)

\* C2: a download triggered on an episode or a title whose direct download
\* link and download code are both set opens the direct link, not a deep link
\* built from the download code.
C2_DirectLinkOpened ==
    (/\ EventControl \in {"episode.download", "title.download"}
     /\ Present(Prop(EventItem[1], "downloadLink"))
     /\ Present(Prop(EventItem[1], "downloadCode")))
    => opened = <<<<"window.open", Prop(EventItem[1], "downloadLink")>>>>

(* -------------------------------- C3 ---------------------------------- *)

\* C3: watch resolution depends on the primary play code only: when that code
\* is absent nothing is handed to the link-opening collaborator, whether or not
\* a download code or a download link is present.
C3_NoCodeNoAction ==
    (EventHandler = "handleWatch" /\ ~Present(EventArgs[1])) => opened = <<>>

(* -------------------------------- C4 ---------------------------------- *)

\* C4: a watch or download call makes at most one hand-off, and exactly one
\* when it resolves a destination; the path is chosen by the client's
\* availability as that call finds it: a deep link goes to openTelegramLink
\* when the client is available and to window.open otherwise, a direct link
\* goes to window.open either way.
C4_OneHandOffByAvailability ==
    EventHandler \in {"handleWatch", "handleDownload"} =>
        LET direct   == EventHandler = "handleDownload" /\ Present(EventArgs[2])
            resolves == \E i \in 1..Len(EventArgs) : Present(EventArgs[i])
        IN  /\ Len(opened) <= 1
            /\ resolves => Len(opened) = 1
            /\ \A i \in 1..Len(opened) :
                FnOf(opened[i]) =
                    IF direct THEN "window.open"
                    ELSE IF ClientAvailable(EventTelegram) THEN "openTelegramLink"
                    ELSE "window.open"

\* a direct link, with the client available, went to window.open
C4_Witness ==
    /\ EventHandler = "handleDownload"
    /\ Present(EventArgs[2])
    /\ ClientAvailable(EventTelegram)
    /\ Len(opened) = 1
    /\ FnOf(opened[1]) = "window.open"

(* -------------------------------- C5 ---------------------------------- *)

\* C5: a title is multi-episode exactly when its category is "Series" or
\* "Korean Drama" or its episode list is non-empty.
C5_Classification ==
    IsSeries <=> (Get(movie, "category") \in {"Series", "Korean Drama"} \/ Len(EpisodeList) > 0)

\* a title of another category that is multi-episode by its episodes alone
C5_Witness ==
    /\ Get(movie, "category") = "Movie"
    /\ Len(EpisodeList) > 0
    /\ IsSeries

(* -------------------------------- C6 ---------------------------------- *)

\* C6: the organizer puts every episode in exactly one group, the one keyed
\* by its season, or by 1 when its season is missing or 0; the groups hold the
\* episodes of the input, each as often as the input does, and nothing else.
C6_GroupsPartitionInput ==
    /\ \A i \in 1..Len(EpisodeList) :
        LET e == EpisodeList[i]
        IN  /\ KeyOf(GroupingKey(e)) \in GroupKeys
            /\ \A k \in GroupKeys :
                Occurrences(e, Group(k)) =
                    IF k = KeyOf(GroupingKey(e)) THEN Occurrences(e, EpisodeList) ELSE 0
    /\ \A k \in GroupKeys :
        \A j \in 1..Len(Group(k)) : Occurrences(Group(k)[j], EpisodeList) > 0
    /\ \A i, j \in 1..Len(episodesBySeason) :
        episodesBySeason[i][1] = episodesBySeason[j][1] => i = j

\* an episode of season 0 and one with no season share the group of season 1
C6_Witness ==
    /\ "1" \in GroupKeys
    /\ \E i, j \in 1..Len(Group("1")) :
        /\ Prop(Group("1")[i], "season") = Undefined
        /\ Prop(Group("1")[j], "season") = Val(0)

(* -------------------------------- C7 ---------------------------------- *)

\* C7: in every group the episode numbers never decrease, and episodes of
\* equal number keep the order they had in the input.
C7_SortedAndStable ==
    \A k \in GroupKeys :
        \A a, b \in 1..Len(Group(k)) :
            a < b =>
                LET x == Group(k)[a]
                    y == Group(k)[b]
                IN  /\ Get(x, "number") <= Get(y, "number")
                    /\ Get(x, "number") = Get(y, "number")
                            => InputPosition(x) < InputPosition(y)

\* a group of three that the sort reordered, two of them of equal number
C7_Witness ==
    \E k \in GroupKeys :
        /\ Len(Group(k)) = 3
        /\ Get(Group(k)[1], "number") = Get(Group(k)[2], "number")
        /\ InputPosition(Group(k)[3]) = 1

(* -------------------------------- C8 ---------------------------------- *)

\* C8: seasonNumbers lists the distinct grouping keys of the episode list,
\* each once, in strictly ascending order; with an empty or missing episode
\* list the groups and seasonNumbers are empty, also for a multi-episode title.
C8_SeasonIndex ==
    /\ {seasonNumbers[i] : i \in 1..Len(seasonNumbers)} = GroupingKeys
    /\ \A i, j \in 1..Len(seasonNumbers) : i < j => seasonNumbers[i] < seasonNumbers[j]
    /\ Len(EpisodeList) = 0 => episodesBySeason = <<>> /\ seasonNumbers = <<>>

\* the first episode is of season 2, a later one of season 1: the index is 1, 2
C8_Witness ==
    /\ Len(EpisodeList) = 3
    /\ GroupingKey(EpisodeList[1]) = 2
    /\ GroupingKey(EpisodeList[2]) = 1
    /\ GroupingKey(EpisodeList[3]) = 2
    /\ seasonNumbers = <<1, 2>>

(* -------------------------------- C9 ---------------------------------- *)

\* C9: for a title with a non-empty episode list, selectedSeason is always a
\* member of the season index.
C9_SelectedSeasonInIndex ==
    Len(EpisodeList) > 0 =>
        \E i \in 1..Len(seasonNumbers) : seasonNumbers[i] = selectedSeason

(* -------------------------------- C10 --------------------------------- *)

\* C10: after any season selections and changes of the episode list, the
\* displayed list is the organizer's group of the current episode list for
\* selectedSeason: the episodes whose grouping key is selectedSeason, each
\* once, and the empty list when selectedSeason is not in the season index.
C10_DisplayedIsGroup ==
    LET fresh == Organize(Prop(movie, "episodes"))
        shown == currentSeasonEpisodes
    IN  /\ shown = IF \E i \in 1..Len(fresh) : fresh[i][1] = KeyOf(selectedSeason)
                   THEN fresh[CHOOSE i \in 1..Len(fresh) :
                                    fresh[i][1] = KeyOf(selectedSeason)][2]
                   ELSE <<>>
        /\ \A i \in 1..Len(EpisodeList) :
            Occurrences(EpisodeList[i], shown) =
                IF GroupingKey(EpisodeList[i]) = selectedSeason THEN 1 ELSE 0
        /\ selectedSeason \notin GroupingKeys => shown = <<>>

\* season 2 is selected, the season index is <<1>>, and nothing is displayed
C10_Witness ==
    /\ selectedSeason = 2
    /\ seasonNumbers = <<1>>
    /\ currentSeasonEpisodes = <<>>

(* -------------------------------- C11 --------------------------------- *)

\* the isComingSoon flag of an episode is set and true
IsComingSoon(e) ==
    Prop(e, "isComingSoon") # Undefined /\ Prop(e, "isComingSoon")[1] = TRUE

\* the three action references of an item are all present
AllReferences(item) ==
    /\ Present(Prop(item, "telegramCode"))
    /\ Present(Prop(item, "downloadCode"))
    /\ Present(Prop(item, "downloadLink"))

\* C11: for every displayed episode the watch control is offered exactly when
\* isComingSoon is not true, whatever action references the episode has, and
\* no watch or download call is ever made for an episode whose isComingSoon is
\* true.
C11_ComingSoonIsTheGate ==
    /\ EpisodesShown =>
        \A i \in 1..Len(currentSeasonEpisodes) :
            LET e == currentSeasonEpisodes[i]
            IN  /\ EpisodeWatchOffered(e) <=> ~IsComingSoon(e)
                /\ IsComingSoon(e) => ~EpisodeDownloadOffered(e)
    /\ EventControl \in {"episode.watch", "episode.download"} =>
        ~IsComingSoon(EventItem[1])

\* a displayed episode that has every action reference and is coming soon has
\* no watch control and no download control
C11_Witness ==
    /\ EpisodesShown
    /\ \E i \in 1..Len(currentSeasonEpisodes) :
        LET e == currentSeasonEpisodes[i]
        IN  /\ IsComingSoon(e)
            /\ AllReferences(e)
            /\ ~EpisodeWatchOffered(e)
            /\ ~EpisodeDownloadOffered(e)

(* -------------------------------- C12 --------------------------------- *)

\* download resolution has nothing to open for the item: no direct link, no
\* download code and no play code to fall back on
NothingToDownload(item) ==
    /\ ~Present(Prop(item, "downloadLink"))
    /\ ~Present(Prop(item, "downloadCode"))
    /\ ~Present(Prop(item, "telegramCode"))

\* C12: the download control of a single-asset title, and of a displayed
\* episode that is not coming soon, is offered exactly when the item's
\* download code is present; it is never offered for an item with no direct
\* link, no download code and no fallback code, and every download call is
\* made for an item whose download code is present.
C12_DownloadOfferedByCode ==
    /\ ~IsSeries =>
        /\ TitleDownloadOffered <=> Present(Prop(movie, "downloadCode"))
        /\ NothingToDownload(movie) => ~TitleDownloadOffered
    /\ EpisodesShown =>
        \A i \in 1..Len(currentSeasonEpisodes) :
            LET e == currentSeasonEpisodes[i]
            IN  /\ ~IsComingSoon(e) =>
                    (EpisodeDownloadOffered(e) <=> Present(Prop(e, "downloadCode")))
                /\ NothingToDownload(e) => ~EpisodeDownloadOffered(e)
    /\ EventControl \in {"title.download", "episode.download"} =>
        Present(Prop(EventItem[1], "downloadCode"))

\* a single-asset title with a direct link and no download code has no
\* download control, and the user has used its watch control
C12_Witness ==
    /\ ~IsSeries
    /\ Present(Prop(movie, "downloadLink"))
    /\ ~Present(Prop(movie, "downloadCode"))
    /\ ~TitleDownloadOffered
    /\ EventControl = "title.watch"

(* -------------------------------- C13 --------------------------------- *)

\* the viewer state: whether it is open, the index it opens at, the index shown
viewerState == <<viewerOpen, viewerIndex, current>>

\* what a step that ends with a tab selection as the last event does
TabSelectionFrame ==
    EventControl' = "tab" =>
        /\ activeTab' = EventArgs'[1][1]
        /\ UNCHANGED <<selectedSeason, viewerState>>
        /\ opened' = <<>>

\* what a step that ends with a season selection as the last event does
SeasonSelectionFrame ==
    EventControl' = "season" =>
        /\ selectedSeason' = EventArgs'[1][1]
        /\ UNCHANGED <<activeTab, viewerState>>
        /\ opened' = <<>>

\* both tabs can be selected wherever the tab buttons can be clicked
TabsTakeBothChoices ==
    (IsSeries /\ ViewClickable) =>
        \A t \in {"episodes", "info"} : ENABLED (SelectTab /\ activeTab' = t)

\* C13: a tab selection sets activeTab to the chosen tab, whatever the state it
\* is made in, and leaves selectedSeason and the viewer state as they were; a
\* season selection sets selectedSeason to the chosen number and leaves
\* activeTab and the viewer state as they were; neither opens anything.  The
\* tab buttons of a multi-episode title take both choices in every state in
\* which they can be clicked.
C13_SelectionFrames ==
    /\ [][TabSelectionFrame /\ SeasonSelectionFrame]_vars
    /\ []TabsTakeBothChoices

\* a tab was selected with another season than the first selected and a
\* viewer index other than the first, and both are as they were
C13_Witness ==
    /\ EventControl = "tab"
    /\ activeTab = "episodes"
    /\ selectedSeason = 2
    /\ viewerIndex = 1

(* -------------------------------- C14 --------------------------------- *)

\* the positions of the title's screenshots, counted from 0
ScreenshotPositions ==
    IF Prop(movie, "screenshots") = Undefined THEN {}
    ELSE 0..(Len(Prop(movie, "screenshots")[1]) - 1)

\* C14: after a click on the screenshot at position i the viewer is open and
\* shows index i, whatever it showed when it was open before; after the
\* viewer's close it is closed; and an open viewer shows an index that is a
\* position of the title's screenshots.
C14_ViewerShowsClicked ==
    /\ EventControl = "screenshot" =>
        /\ ViewerMounted
        /\ current = EventArgs[1][1]
        /\ viewerIndex = EventArgs[1][1]
    /\ EventControl = "viewer.close" => ~viewerOpen /\ ~ViewerMounted
    /\ ViewerMounted => current \in ScreenshotPositions

\* the screenshot at position 1 was clicked and the viewer shows index 1
C14_Witness ==
    /\ EventControl = "screenshot"
    /\ EventArgs = <<Val(1)>>
    /\ ViewerMounted
    /\ current = 1

(* -------------------------------- C15 --------------------------------- *)

\* the one hand-off of the deep link of code c, on the path the client's
\* availability decides
DeepLinkHandOff(c, tg) ==
    <<<<IF ClientAvailable(tg) THEN "openTelegramLink" ELSE "window.open",
        DeepLinkTo(c)>>>>

\* C15: a download that falls to the download code c, or to the fallback code
\* c, hands off what a watch of c hands off under the same availability of
\* the client: the deep link https://t.me/<bot>?start=c, with c as it was
\* given, on the same path.
C15_DownloadLikeWatch ==
    /\ EventHandler = "handleDownload" =>
        LET dc == EventArgs[1]
            dl == EventArgs[2]
            fc == EventArgs[3]
        IN  /\ ~Present(dl) /\ Present(dc) =>
                /\ opened = handleWatch(dc, EventTelegram)
                /\ opened = DeepLinkHandOff(dc[1], EventTelegram)
            /\ ~Present(dl) /\ ~Present(dc) /\ Present(fc) =>
                /\ opened = handleWatch(fc, EventTelegram)
                /\ opened = DeepLinkHandOff(fc[1], EventTelegram)
    /\ EventHandler = "handleWatch" /\ Present(EventArgs[1]) =>
        opened = DeepLinkHandOff(EventArgs[1][1], EventTelegram)

\* a download with a fallback code only, a code with characters a URL would
\* escape, went to the client as the deep link of that code
C15_Witness ==
    /\ EventHandler = "handleDownload"
    /\ EventArgs = <<Undefined, Undefined, Val("a b&c=d")>>
    /\ ClientAvailable(EventTelegram)
    /\ opened = <<<<"openTelegramLink", <<"https://t.me/", "bot", "?start=", "a b&c=d">>>>>>

(* -------------------------------- C16 --------------------------------- *)

\* the i-th episode of the title is in the displayed episode list
Displayed(i) ==
    /\ EpisodesShown
    /\ \E j \in 1..Len(currentSeasonEpisodes) : currentSeasonEpisodes[j] = EpisodeList[i]

\* C16: every episode of a title with episodes can be displayed: the user who
\* tries every tab and season selection the view offers comes, for each
\* episode, to a state whose displayed list holds it.
C16_EveryEpisodeDisplayable ==
    \A i \in 1..MaxViewEpisodes : <>(i <= Len(EpisodeList) => Displayed(i))

(* -------------------------------- C17 --------------------------------- *)

\* C17: while the title is single-asset the tab is Episodes, so that the
\* About panel is not shown, and the screenshot viewer is closed, in every
\* reachable state.
C17_SingleAssetStaysOnEpisodes ==
    ~IsSeries => (activeTab = "episodes" /\ ~viewerOpen)

====
